---- MODULE Spec2Model ----
(***************************************************************************)
(* Verification model of trociny/ceph-scripts:                             *)
(*   ceph-stats/process.py          -- tagged-log query tool               *)
(*   host-stats/process_iostat_all.py -- iostat pivot / serialisation tool *)
(* Text is modelled as tuples of one-character strings so that the regular *)
(* expressions, str.split(), sorted() and the tab-joined output can be     *)
(* computed as the code computes them.                                     *)
(***************************************************************************)
EXTENDS Integers, Sequences, FiniteSets, TLC

(* ---------------------------------------------------------------------- *)
(* Characters and strings                                                  *)
(* ---------------------------------------------------------------------- *)

\* The characters used, in ascending code-point order (str comparison).
CharOrder ==
    << "\t", " ", "#", "%", "-", "/",
       "0", "1", "2", "3", "4", "5", "6", "7", "8", "9",
       ":", "D", "F", "T", "[", "]", "_",
       "a", "b", "c", "d", "e", "f", "g", "i", "k", "l", "m", "o", "r", "s",
       "t", "u", "v", "w", "x", "y" >>

Ord(c) == CHOOSE i \in 1..Len(CharOrder) : CharOrder[i] = c

Digits == <<"0", "1", "2", "3", "4", "5", "6", "7", "8", "9">>

\* str.isdigit() on one character
IsDigitChar(c) == \E i \in 1..10 : Digits[i] = c

DigitVal(c) == (CHOOSE i \in 1..10 : Digits[i] = c) - 1

\* \s of the re module, and the separator set of str.split()
IsSpace(c) == c \in {" ", "\t"}

\* str.isdigit(): non-empty and every character a digit
IsDigitStr(s) == Len(s) > 0 /\ \A i \in 1..Len(s) : IsDigitChar(s[i])

RECURSIVE ToInt(_)
\* int(k) for an all-digit k
ToInt(s) ==
    IF s = <<>> THEN 0
    ELSE 10 * ToInt(SubSeq(s, 1, Len(s) - 1)) + DigitVal(s[Len(s)])

RECURSIVE SplitFrom(_, _, _, _)
SplitFrom(s, i, cur, acc) ==
    IF i > Len(s)
    THEN IF cur = <<>> THEN acc ELSE Append(acc, cur)
    ELSE IF IsSpace(s[i])
         THEN SplitFrom(s, i + 1, <<>>, IF cur = <<>> THEN acc ELSE Append(acc, cur))
         ELSE SplitFrom(s, i + 1, Append(cur, s[i]), acc)

\* str.split() with no argument: runs of whitespace separate, no empty tokens
Split(s) == SplitFrom(s, 1, <<>>, <<>>)

RECURSIVE LStrip(_)
\* what a leading \s* of a regular expression consumes
LStrip(s) == IF s # <<>> /\ IsSpace(s[1]) THEN LStrip(Tail(s)) ELSE s

RECURSIVE RStrip(_)
\* what a trailing \s*$ of a regular expression consumes
RStrip(s) ==
    IF s # <<>> /\ IsSpace(s[Len(s)]) THEN RStrip(SubSeq(s, 1, Len(s) - 1)) ELSE s

\* s starts with p
StartsWith(s, p) == Len(s) >= Len(p) /\ SubSeq(s, 1, Len(p)) = p

\* Every position of s is a digit where pat has "d" and pat's character elsewhere.
MatchesPattern(s, pat) ==
    /\ Len(s) = Len(pat)
    /\ \A i \in 1..Len(pat) :
          IF pat[i] = "d" THEN IsDigitChar(s[i]) ELSE s[i] = pat[i]

RECURSIVE StrLess(_, _)
\* a < b for Python strings: first differing character, a proper prefix is less
StrLess(a, b) ==
    IF b = <<>> THEN FALSE
    ELSE IF a = <<>> THEN TRUE
    ELSE IF a[1] # b[1] THEN Ord(a[1]) < Ord(b[1])
    ELSE StrLess(Tail(a), Tail(b))

RECURSIVE SortedStrs(_)
\* sorted(S) for a set of strings
SortedStrs(S) ==
    IF S = {} THEN <<>>
    ELSE LET m == CHOOSE x \in S : \A y \in S \ {x} : StrLess(x, y)
         IN  <<m>> \o SortedStrs(S \ {m})

RECURSIVE Concat(_)
\* the concatenation of a sequence of strings
Concat(ss) == IF ss = <<>> THEN <<>> ELSE Head(ss) \o Concat(Tail(ss))

(* ---------------------------------------------------------------------- *)
(* Bounds                                                                  *)
(* ---------------------------------------------------------------------- *)

\* Lines read from the log file by process.py in one run.
MaxLogLines == 3

\* Lines read from stdin by process_iostat_all.py in one run (with history).
MaxLines == 4

\* Lines read from stdin in one run of the whole pivot pipeline.
MaxPivotLines == 7

(* ---------------------------------------------------------------------- *)
(* ceph-stats/process.py                                                   *)
(* ---------------------------------------------------------------------- *)

VARIABLES
    name,       \* ctx.name
    keys,       \* ctx.key, a list of key-path strings
    pretty,     \* ctx.json_pretty
    file,       \* the lines of the log file f, in file order
    pos,        \* how many lines of f the loop of line 66 has taken
    out,        \* stdout: the printed lines, each the list of its print items
    status,     \* "start", "scan", "done", "nofile", "error" (json.loads raised)
    rval,       \* resolve: the parsed payload
    rkey,       \* resolve: the key-path string
    rres,       \* resolve: the value of v after the loop of lines 76-84
    rpc         \* resolve: "call" or "done"

VARIABLES
    time,       \* process_iostat_all.py: the current timestamp ('' at start)
    cols,       \* the current column list
    res,        \* res[key][time][disk]
    ipc,        \* "parse", "write", "done", "error" (an uncaught exception)
    nread,      \* number of lines of sys.stdin iterated
    lines,      \* the lines of sys.stdin iterated so far (history)
    todo,       \* keys of res.keys() not yet serialised
    files,      \* files[filename]: the lines written to that file
    plots       \* the plot commands piped to gnuplot, in order

reportVars == <<name, keys, pretty, file, pos, out, status>>
iostatVars == <<time, cols, res, ipc, nread, lines, todo, files, plots>>
resolveVars == <<rval, rkey, rres, rpc>>

\* Parsed JSON values as json.loads builds them.
None == <<"null", 0>>
Num(n) == <<"num", n>>
Str(s) == <<"str", s>>
Bool(b) == <<"bool", b>>
List(items) == <<"list", items>>
Dict(f) == <<"dict", f>>

EmptyDict == Dict([x \in {} |-> None])

\* k as used in v[k]: an all-digit segment becomes an int.
SegKey(k) == IF IsDigitStr(k) THEN <<"int", ToInt(k)>> ELSE <<"str", k>>

\* v[k] does not raise
GetItemOk(v, k) ==
    CASE v[1] = "dict" -> k[1] = "str" /\ k[2] \in DOMAIN v[2]
      [] v[1] = "list" -> k[1] = "int" /\ k[2] < Len(v[2])
      [] v[1] = "str"  -> k[1] = "int" /\ k[2] < Len(v[2])
      [] OTHER -> FALSE

\* v[k] where it does not raise
GetItem(v, k) ==
    CASE v[1] = "dict" -> v[2][k[2]]
      [] v[1] = "list" -> v[2][k[2] + 1]
      [] v[1] = "str"  -> Str(<<v[2][k[2] + 1]>>)

RECURSIVE Walk(_, _)
\* the loop over key.split(): the first failing lookup sets v = None and breaks
Walk(v, segs) ==
    IF segs = <<>> THEN v
    ELSE LET k == SegKey(Head(segs))
         IN  IF GetItemOk(v, k) THEN Walk(GetItem(v, k), Tail(segs)) ELSE None

\* the value of v after lines 76-84 for one key
Resolve(val, key) == Walk(val, Split(key))

RECURSIVE DecStr(_)
\* str(n) of a natural number
DecStr(n) == IF n < 10 THEN <<Digits[n + 1]>> ELSE DecStr(n \div 10) \o <<Digits[(n % 10) + 1]>>

Text(s) == <<"text", s>>

\* what print writes for one item: str(v); a container prints as its repr
PyStr(v) ==
    CASE v[1] = "str"  -> Text(v[2])
      [] v[1] = "num"  -> Text(DecStr(v[2]))
      [] v[1] = "bool" -> Text(IF v[2] THEN <<"T", "r", "u", "e">> ELSE <<"F", "a", "l", "s", "e">>)
      [] v[1] = "null" -> Text(<<"N", "o", "n", "e">>)
      [] OTHER -> <<"repr", v>>

\* the item of line 88: v is None and '-' or v
Field(v) == IF v = None THEN Text(<<"-">>) ELSE PyStr(v)

\* the item json.dumps(v, ...) of line 86; None dumps as the null literal
JsonDumps(v) == <<"json", v>>

StampPattern ==
    <<"d", "d", "d", "d", "-", "d", "d", "-", "d", "d", " ",
      "d", "d", ":", "d", "d", ":", "d", "d">>

\* r.match(line) of line 67 for a tag without regular-expression metacharacters;
\* head is the line up to the start of group 2.
MatchTagged(tag, head) ==
    LET n == Len(tag)
    IN  /\ Len(head) >= Len(StampPattern) + n + 4
        /\ MatchesPattern(SubSeq(head, 1, 19), StampPattern)
        /\ SubSeq(head, 20, 21) = <<" ", "[">>
        /\ SubSeq(head, 22, 21 + n) = tag
        /\ SubSeq(head, 22 + n, 23 + n) = <<"]", " ">>
        /\ \A i \in (24 + n)..Len(head) : IsSpace(head[i])

\* m.group(1)
StampOf(head) == SubSeq(head, 1, 19)

RECURSIVE JoinQuoted(_)
\* ' '.join(['"' + x + '"' for x in ks])
JoinQuoted(ks) ==
    IF ks = <<>> THEN <<>>
    ELSE <<"\"">> \o Head(ks) \o <<"\"">>
         \o (IF Len(ks) > 1 THEN <<" ">> \o JoinQuoted(Tail(ks)) ELSE <<>>)

\* the line printed by line 65
HeaderRow(ks) ==
    << Text(<<"#", "\"", "d", "a", "t", "e", "\"", " ", "\"", "t", "i", "m", "e", "\"">>),
       Text(JoinQuoted(ks)) >>

\* the lines printed for one matched entry by lines 72-89
EntryRows(t, val) ==
    IF pretty
    THEN << <<Text(t), Text(name)>> >>
         \o [i \in 1..Len(keys) |->
                <<Text(keys[i]), Text(<<" ", "=", " ">>), JsonDumps(Resolve(val, keys[i]))>>]
         \o << <<>> >>
    ELSE << <<Text(t)>> \o [i \in 1..Len(keys) |-> Field(Resolve(val, keys[i]))] >>

(* ---- inputs of process.py ---- *)

S_a == <<"a">>
S_b == <<"b">>
TagDisk == <<"d", "i", "s", "k">>
TagOsd == <<"o", "s", "d">>

Stamp1 ==
    <<"2", "0", "2", "4", "-", "0", "1", "-", "0", "1", " ",
      "0", "0", ":", "0", "0", ":", "0", "0">>
Stamp2 ==
    <<"2", "0", "2", "4", "-", "0", "1", "-", "0", "1", " ",
      "0", "0", ":", "0", "0", ":", "0", "1">>
\* a "T" where the grammar wants a space
BadStamp ==
    <<"2", "0", "2", "4", "-", "0", "1", "-", "0", "1", "T",
      "0", "0", ":", "0", "0", ":", "0", "0">>

\* the text of a line up to its payload: "<stamp> [<tag>] "
Head_(stamp, tag) == stamp \o <<" ", "[">> \o tag \o <<"]", " ">>

\* A log line: its text up to the payload, and what json.loads makes of the rest.
Parsed(head, v) == [head |-> head, parses |-> TRUE, value |-> v]
Garbled(head) == [head |-> head, parses |-> FALSE, value |-> None]

DictA(v) == Dict([x \in {S_a} |-> v])

LogLines ==
    { Parsed(Head_(Stamp1, TagDisk), EmptyDict),
      Parsed(Head_(Stamp1, TagDisk), DictA(None)),
      Parsed(Head_(Stamp2, TagDisk) \o <<" ">>, DictA(List(<<Num(7), Str(<<"x", "y">>)>>))) }
    \cup { Garbled(Head_(Stamp2, TagDisk)),
           Parsed(Head_(Stamp1, TagOsd), DictA(Num(3))),
           Parsed(Head_(BadStamp, TagDisk) \o <<" ">>, DictA(Num(3))),
           Parsed(<<"t", "e", "x", "t">>, None) }

\* The log files: every sequence of at most MaxLogLines of these lines.
LogFiles == UNION { [1..n -> LogLines] : n \in 0..MaxLogLines }

KeyA0 == <<"a", " ", "0">>
KeyA1 == <<"a", " ", "1">>

\* ctx.key: argparse gives [''] when no key is named
KeyLists ==
    { << <<>> >>, <<S_a>>, <<S_b, KeyA1, S_a>> }

Tags == {TagDisk}

(* ---- inputs of resolve ---- *)

Scalars == { None, Num(3), Bool(TRUE), Str(<<"x", "y">>), Str(<<>>) }

KeySet == { S_a, <<"1">> }

Level1 ==
    Scalars
    \cup { Dict(f) : f \in UNION { [D -> Scalars] : D \in SUBSET KeySet } }
    \cup { List(<<>>) } \cup { List(<<x>>) : x \in Scalars }
    \cup { List(<<x, y>>) : x \in {Num(3), None}, y \in Scalars }

ResolveValues ==
    Level1
    \cup { DictA(v) : v \in Level1 }
    \cup { List(<<Num(3), v>>) : v \in Level1 }

ResolveKeys ==
    { <<>>, <<" ">>, S_a, S_b, <<"0">>, <<"1">>, <<"0", "1">>, <<"5">>,
      <<"a", " ", "a">>, KeyA0, KeyA1, <<"a", " ", " ", "1">>, <<"1", " ", "a">>,
      <<"1", " ", "0">>, <<"1", " ", "1">>, <<"a", " ", "1", " ", "0">> }

(* ---- actions of process.py ---- *)

ReportIdle ==
    /\ name = <<>> /\ keys = <<>> /\ pretty = FALSE
    /\ file = <<>> /\ pos = 0 /\ out = <<>> /\ status = "idle"

ResolveIdle == rval = None /\ rkey = <<>> /\ rres = None /\ rpc = "idle"

IostatIdle ==
    /\ time = <<>> /\ cols = <<>> /\ res = <<>> /\ ipc = "idle" /\ nread = 0
    /\ lines = <<>> /\ todo = {} /\ files = <<>> /\ plots = <<>>

\* line 62: open() raises, nothing has been printed
OpenFails ==
    /\ status = "start"
    /\ status' = "nofile"
    /\ UNCHANGED <<name, keys, pretty, file, pos, out>>

\* lines 62-65: the file opens; the header row is printed unless pretty
Start ==
    /\ status = "start"
    /\ status' = "scan"
    /\ out' = IF pretty THEN out ELSE Append(out, HeaderRow(keys))
    /\ UNCHANGED <<name, keys, pretty, file, pos>>

\* ReadLine with "break" where the code has "continue" (line 69)
ReadLine_BreakOnUnmatched(line) ==
    /\ status = "scan"
    /\ pos < Len(file) /\ line = file[pos + 1]
    /\ pos' = pos + 1
    /\ IF ~MatchTagged(name, line.head)
       THEN status' = "done" /\ UNCHANGED out
       ELSE IF ~line.parses
            THEN status' = "error" /\ UNCHANGED out
            ELSE /\ out' = out \o EntryRows(StampOf(line.head), line.value)
                 /\ UNCHANGED status
    /\ UNCHANGED <<name, keys, pretty, file>>

\* ReadLine with "print t," (line 72) moved before json.loads (line 71)
ReadLine_PrintBeforeParse(line) ==
    /\ status = "scan"
    /\ pos < Len(file) /\ line = file[pos + 1]
    /\ pos' = pos + 1
    /\ IF ~MatchTagged(name, line.head)
       THEN UNCHANGED <<out, status>>
       ELSE IF ~line.parses
            THEN status' = "error" /\ out' = Append(out, <<Text(StampOf(line.head))>>)
            ELSE /\ out' = out \o EntryRows(StampOf(line.head), line.value)
                 /\ UNCHANGED status
    /\ UNCHANGED <<name, keys, pretty, file>>

\* lines 66-89, one iteration of "for line in f"
ReadLine(line) ==
    /\ status = "scan"
    /\ pos < Len(file) /\ line = file[pos + 1]
    /\ pos' = pos + 1
    /\ IF ~MatchTagged(name, line.head)
       THEN UNCHANGED <<out, status>>
       ELSE IF ~line.parses
            THEN status' = "error" /\ UNCHANGED out
            ELSE /\ out' = out \o EntryRows(StampOf(line.head), line.value)
                 /\ UNCHANGED status
    /\ UNCHANGED <<name, keys, pretty, file>>

\* the file is exhausted and main returns
Eof ==
    /\ status = "scan"
    /\ pos = Len(file)
    /\ status' = "done"
    /\ UNCHANGED <<name, keys, pretty, file, pos, out>>

InitReport ==
    /\ name \in Tags /\ keys \in KeyLists /\ pretty \in BOOLEAN
    /\ file \in LogFiles
    /\ pos = 0 /\ out = <<>> /\ status = "start"
    /\ ResolveIdle /\ IostatIdle

ReportOpenFails == OpenFails /\ UNCHANGED <<resolveVars, iostatVars>>
ReportStart == Start /\ UNCHANGED <<resolveVars, iostatVars>>
ReportLine == (\E line \in LogLines : ReadLine(line)) /\ UNCHANGED <<resolveVars, iostatVars>>
ReportEof == Eof /\ UNCHANGED <<resolveVars, iostatVars>>

NextReport == ReportOpenFails \/ ReportStart \/ ReportLine \/ ReportEof

vars == <<reportVars, resolveVars, iostatVars>>

Spec == InitReport /\ [][NextReport]_vars

\* lines 76-84 applied to one payload and one key
ResolveCall ==
    /\ rpc = "call"
    /\ rres' = Resolve(rval, rkey)
    /\ rpc' = "done"
    /\ UNCHANGED <<rval, rkey>>

InitResolve ==
    /\ rval \in ResolveValues /\ rkey \in ResolveKeys
    /\ rres = rval /\ rpc = "call"
    /\ ReportIdle /\ IostatIdle

NextResolve == ResolveCall /\ UNCHANGED <<reportVars, iostatVars>>

SpecResolve == InitResolve /\ [][NextResolve]_vars

(* ---------------------------------------------------------------------- *)
(* Claims about process.py                                                 *)
(* ---------------------------------------------------------------------- *)

\* A lookup as the specification describes it: an all-digit segment indexes a
\* sequence, any other segment keys a mapping, a scalar has nothing to step into.
SpecLookupOk(v, seg) ==
    CASE v[1] = "dict" -> ~IsDigitStr(seg) /\ seg \in DOMAIN v[2]
      [] v[1] = "list" -> IsDigitStr(seg) /\ ToInt(seg) < Len(v[2])
      [] OTHER -> FALSE

SpecLookup(v, seg) == IF v[1] = "dict" THEN v[2][seg] ELSE v[2][ToInt(seg) + 1]

RECURSIVE SpecResolved(_, _)
\* <<TRUE, value>> when every segment lookup succeeds, <<FALSE, None>> (Absent) otherwise
SpecResolved(v, segs) ==
    IF segs = <<>> THEN <<TRUE, v>>
    ELSE IF SpecLookupOk(v, Head(segs))
         THEN SpecResolved(SpecLookup(v, Head(segs)), Tail(segs))
         ELSE <<FALSE, None>>

\* C1: resolve returns the nested value when every segment lookup succeeds, the
\* original value for an empty path, and Absent as soon as a lookup fails, where
\* stepping into any scalar (a string included) is a failure.
C1_ResolveAsSpecified ==
    rpc = "done" => rres = SpecResolved(rval, Split(rkey))[2]

\* the tagged lines among the first n lines of the file
Tagged(n) == SelectSeq(SubSeq(file, 1, n), LAMBDA l : MatchTagged(name, l.head))

\* the report row of one tagged line: its timestamp, then one field per key path
RowOf(l) ==
    [i \in 1..(Len(keys) + 1) |->
        IF i = 1 THEN Text(SubSeq(l.head, 1, 19))
        ELSE Field(Resolve(l.value, keys[i - 1]))]

Malformed(l) == MatchTagged(name, l.head) /\ ~l.parses

RECURSIVE ScanOutput(_)
\* what a scan of well-formed lines alone prints for them
ScanOutput(ls) ==
    IF ls = <<>> THEN <<>>
    ELSE (IF MatchTagged(name, Head(ls).head)
          THEN EntryRows(SubSeq(Head(ls).head, 1, 19), Head(ls).value)
          ELSE <<>>) \o ScanOutput(Tail(ls))

\* C3: a tagged line with an unparsable payload ends the run in error at that
\* line: nothing is printed for it, no later line is taken, and the output is
\* that of a scan of the preceding lines alone; such a line is never skipped.
C3_MalformedIsFatal ==
    /\ status = "error" =>
          /\ pos >= 1 /\ Malformed(file[pos])
          /\ \A i \in 1..(pos - 1) : ~Malformed(file[i])
          /\ out = (IF pretty THEN <<>> ELSE <<HeaderRow(keys)>>)
                   \o ScanOutput(SubSeq(file, 1, pos - 1))
    /\ status \in {"scan", "done"} => \A i \in 1..pos : ~Malformed(file[i])

C3_Witness ==
    /\ status = "error" /\ pos = 2 /\ Len(file) = 3
    /\ MatchTagged(name, file[1].head)
    /\ MatchTagged(name, file[3].head) /\ file[3].parses

RECURSIVE AllLookupsSucceed(_, _)
\* every segment lookup of the walk succeeds (no exception is caught)
AllLookupsSucceed(v, segs) ==
    segs = <<>> \/ ( /\ GetItemOk(v, SegKey(Head(segs)))
                     /\ AllLookupsSucceed(GetItem(v, SegKey(Head(segs))), Tail(segs)) )

\* C8: a key path whose every lookup succeeds and whose value is the payload's
\* own null is not reported as Absent: its non-pretty field is not "-".
C8_NullIsNotAbsent ==
    (~pretty /\ status = "scan" /\ pos >= 1
        /\ MatchTagged(name, file[pos].head) /\ file[pos].parses) =>
        \A i \in 1..Len(keys) :
            ( /\ AllLookupsSucceed(file[pos].value, Split(keys[i]))
              /\ Resolve(file[pos].value, keys[i]) = None )
            => out[Len(out)][i + 1] # Text(<<"-">>)

(* ---------------------------------------------------------------------- *)
(* host-stats/process_iostat_all.py                                        *)
(* ---------------------------------------------------------------------- *)

\* ctx.name, used in the generated file names
CtxName == <<"h">>

\* an empty dict
Empty == <<>>

\* d[k] = v
Put(d, k, v) == [x \in (DOMAIN d) \cup {k} |-> IF x = k THEN v ELSE d[x]]

\* "not d.get(k)": k is missing or maps to an empty dict
Missing(d, k) == k \notin DOMAIN d \/ DOMAIN d[k] = {}

TimePattern ==
    <<"d", "d", "/", "d", "d", "/", "d", "d", " ",
      "d", "d", ":", "d", "d", ":", "d", "d">>

\* time_r.match(line), line 53
IsTimeLine(line) == MatchesPattern(RStrip(LStrip(line)), TimePattern)

\* m.group(1) of time_r
TimeOf(line) == RStrip(LStrip(line))

DeviceWord == <<"D", "e", "v", "i", "c", "e", ":">>

\* "\s+(.+)$" matches rest: one whitespace, then at least one more character
RestMatches(rest) == Len(rest) >= 2 /\ IsSpace(rest[1])

ColsRest(line) == SubSeq(LStrip(line), Len(DeviceWord) + 1, Len(LStrip(line)))

\* cols_r.match(line), line 54
IsColsLine(line) == StartsWith(LStrip(line), DeviceWord) /\ RestMatches(ColsRest(line))

\* m.group(1).split() of cols_r
ColsOf(line) == Split(ColsRest(line))

\* DiskLen with the character class [a-f] for [a-e]
DiskLen_WiderClass(s) ==
    IF Len(s) >= 3 /\ s[1] = "s" /\ s[2] = "d" /\ s[3] \in {"a", "b", "c", "d", "e", "f"}
    THEN 3
    ELSE IF Len(s) >= 4 /\ s[1] = "s" /\ s[2] = "d" /\ s[3] = "g" /\ IsDigitChar(s[4])
         THEN 4
         ELSE 0

\* the length of the prefix of s that "(sd[a-e]|sdg[0-9])" matches, 0 if none
DiskLen(s) ==
    IF Len(s) >= 3 /\ s[1] = "s" /\ s[2] = "d" /\ s[3] \in {"a", "b", "c", "d", "e"}
    THEN 3
    ELSE IF Len(s) >= 4 /\ s[1] = "s" /\ s[2] = "d" /\ s[3] = "g" /\ IsDigitChar(s[4])
         THEN 4
         ELSE 0

DataRest(line) == SubSeq(LStrip(line), DiskLen(LStrip(line)) + 1, Len(LStrip(line)))

\* data_r.match(line), line 55
IsDataLine(line) == DiskLen(LStrip(line)) > 0 /\ RestMatches(DataRest(line))

\* m.group(1) of data_r
DiskOf(line) == SubSeq(LStrip(line), 1, DiskLen(LStrip(line)))

\* m.group(2).split() of data_r
DataOf(line) == Split(DataRest(line))

\* cols.index(key) + 1
FirstIndex(cs, key) == CHOOSE i \in 1..Len(cs) : cs[i] = key /\ \A j \in 1..(i - 1) : cs[j] # key

RECURSIVE StoreFrom(_, _, _, _, _, _)
\* lines 73-79 from position p of cols on: the table, and whether data[i] raised
StoreFrom(r, p, cs, t, disk, data) ==
    IF p > Len(cs) THEN [res |-> r, ok |-> TRUE]
    ELSE LET key == cs[p]
             i == FirstIndex(cs, key)
             r1 == IF Missing(r, key) THEN Put(r, key, Empty) ELSE r
             r2 == IF Missing(r1[key], t) THEN Put(r1, key, Put(r1[key], t, Empty)) ELSE r1
         IN  IF i > Len(data) THEN [res |-> r2, ok |-> FALSE]
             ELSE StoreFrom(Put(r2, key, Put(r2[key], t, Put(r2[key][t], disk, data[i]))),
                            p + 1, cs, t, disk, data)

\* ParseLine with a header line extending the column list instead of replacing it
ParseLine_MergeCols(line) ==
    /\ ipc = "parse"
    /\ nread' = nread + 1
    /\ IF IsTimeLine(line)
       THEN time' = TimeOf(line) /\ UNCHANGED <<cols, res, ipc>>
       ELSE /\ cols' = IF IsColsLine(line) THEN cols \o ColsOf(line) ELSE cols
            /\ IF IsDataLine(line)
               THEN LET st == StoreFrom(res, 1, cols', time, DiskOf(line), DataOf(line))
                    IN  res' = st.res /\ ipc' = IF st.ok THEN "parse" ELSE "error"
               ELSE UNCHANGED <<res, ipc>>
            /\ UNCHANGED time
    /\ UNCHANGED <<todo, files, plots>>

\* lines 61-80, one iteration of "for line in sys.stdin"
ParseLine(line) ==
    /\ ipc = "parse"
    /\ nread' = nread + 1
    /\ IF IsTimeLine(line)
       THEN time' = TimeOf(line) /\ UNCHANGED <<cols, res, ipc>>
       ELSE /\ cols' = IF IsColsLine(line) THEN ColsOf(line) ELSE cols
            /\ IF IsDataLine(line)
               THEN LET st == StoreFrom(res, 1, cols', time, DiskOf(line), DataOf(line))
                    IN  res' = st.res /\ ipc' = IF st.ok THEN "parse" ELSE "error"
               ELSE UNCHANGED <<res, ipc>>
            /\ UNCHANGED time
    /\ UNCHANGED <<todo, files, plots>>

\* stdin is exhausted: lines 82-84, the loop over res.keys() begins
EndOfInput ==
    /\ ipc = "parse"
    /\ todo' = DOMAIN res
    /\ ipc' = IF DOMAIN res = {} THEN "done" ELSE "write"
    /\ UNCHANGED <<time, cols, res, nread, lines, files, plots>>

\* str.replace('/', '_')
Sanitize(s) == [i \in 1..Len(s) |-> IF s[i] = "/" THEN "_" ELSE s[i]]

\* line 86, without the directory
FileName(key) == Sanitize(CtxName \o <<".">> \o key \o <<".", "d", "a", "t">>)

\* line 88: print >>f, "#", ctx.name, key
TitleLine(key) == <<"#", " ">> \o CtxName \o <<" ">> \o key

\* s.ljust(n)
LJust(s, n) == s \o [i \in 1..(IF n > Len(s) THEN n - Len(s) ELSE 0) |-> " "]

RECURSIVE TabJoin(_)
\* "\t".join(ss)
TabJoin(ss) ==
    IF ss = <<>> THEN <<>>
    ELSE Head(ss) \o (IF Len(ss) > 1 THEN <<"\t">> \o TabJoin(Tail(ss)) ELSE <<>>)

\* ColumnLine with a space for the tab after the padded label
ColumnLine_SpaceAfterLabel(t, disks) ==
    <<"#">> \o LJust(<<"d", "a", "t", "e", " ", "t", "i", "m", "e">>, Len(t) - 1)
            \o <<" ">> \o TabJoin(disks)

\* line 92
ColumnLine(t, disks) ==
    <<"#">> \o LJust(<<"d", "a", "t", "e", " ", "t", "i", "m", "e">>, Len(t) - 1)
            \o <<"\t">> \o TabJoin(disks)

\* disks = None (line 85)
NoDisks == << <<"N", "o", "n", "e">> >>

RECURSIVE WriteRows_EmptyField(_, _, _, _)
\* WriteRows with res[key][time].get(disk, '') for res[key][time][disk]
WriteRows_EmptyField(key, ts, disks, acc) ==
    IF ts = <<>> THEN [lines |-> acc, ok |-> TRUE, disks |-> disks]
    ELSE LET t == Head(ts)
             first == disks = NoDisks \/ disks = <<>>
             d1 == IF first THEN SortedStrs(DOMAIN res[key][t]) ELSE disks
             acc1 == IF first THEN Append(acc, ColumnLine(t, d1)) ELSE acc
         IN  WriteRows_EmptyField(key, Tail(ts), d1,
                Append(acc1,
                       t \o Concat([j \in 1..Len(d1) |->
                                <<"\t">> \o (IF d1[j] \in DOMAIN res[key][t]
                                              THEN res[key][t][d1[j]] ELSE <<>>)])))

RECURSIVE WriteRows(_, _, _, _)
\* lines 89-96 over the remaining sorted timestamps ts: the lines in the file,
\* whether res[key][time][disk] raised, and the final value of disks
WriteRows(key, ts, disks, acc) ==
    IF ts = <<>> THEN [lines |-> acc, ok |-> TRUE, disks |-> disks]
    ELSE LET t == Head(ts)
             first == disks = NoDisks \/ disks = <<>>
             d1 == IF first THEN SortedStrs(DOMAIN res[key][t]) ELSE disks
             acc1 == IF first THEN Append(acc, ColumnLine(t, d1)) ELSE acc
         IN  IF \E j \in 1..Len(d1) : d1[j] \notin DOMAIN res[key][t]
             THEN [lines |-> acc1, ok |-> FALSE, disks |-> d1]
             ELSE WriteRows(key, Tail(ts), d1,
                     Append(acc1,
                            t \o Concat([j \in 1..Len(d1) |-> <<"\t">> \o res[key][t][d1[j]]])))

\* lines 98-112: what the plot command names for each disk
PlotCommand(key, disks) ==
    [ key |-> key,
      output |-> FileName(key) \o <<".", "p", "n", "g">>,
      series |-> [j \in 1..Len(disks) |->
                    [ using |-> 3 + (FirstIndex(disks, disks[j]) - 1),
                      offset |-> (FirstIndex(disks, disks[j]) - 1) * 100,
                      title |-> disks[j] ]] ]

\* lines 85-112, one iteration of "for key in res.keys()"
WriteKey(key) ==
    /\ ipc = "write"
    /\ key \in todo
    /\ todo' = todo \ {key}
    /\ LET w == WriteRows(key, SortedStrs(DOMAIN res[key]), NoDisks, <<TitleLine(key)>>)
       IN  /\ files' = Put(files, FileName(key), w.lines)
           /\ IF w.ok /\ w.disks # NoDisks
              THEN /\ plots' = Append(plots, PlotCommand(key, w.disks))
                   /\ ipc' = IF todo' = {} THEN "done" ELSE "write"
              ELSE ipc' = "error" /\ UNCHANGED plots
    /\ UNCHANGED <<time, cols, res, nread, lines>>

(* ---- inputs of process_iostat_all.py ---- *)

T1 ==
    <<"1", "2", "/", "3", "1", "/", "1", "5", " ",
      "2", "3", ":", "5", "9", ":", "5", "9">>
T2 ==
    <<"0", "1", "/", "0", "1", "/", "1", "6", " ",
      "0", "0", ":", "0", "0", ":", "0", "0">>

Sda == <<"s", "d", "a">>
Sdb == <<"s", "d", "b">>

RECURSIVE SpaceJoin(_)
\* the words of a line, one space apart
SpaceJoin(ws) ==
    IF ws = <<>> THEN <<>>
    ELSE Head(ws) \o (IF Len(ws) > 1 THEN <<" ">> \o SpaceJoin(Tail(ws)) ELSE <<>>)

\* Lines fed to the parser with history.
IoLines ==
    { T1,
      <<" ">> \o T2 \o <<" ">>,
      SpaceJoin(<<DeviceWord, <<"r">>, <<"w">>>>),
      <<" ">> \o DeviceWord \o <<" ", "\t", "w", " ", " ", "r">>,
      SpaceJoin(<<DeviceWord, <<"r">>, <<"r">>>>),
      SpaceJoin(<<Sda, <<"1">>, <<"2">>>>),
      SpaceJoin(<<Sda, <<"3">>, <<"4">>>>),
      SpaceJoin(<<Sda, <<"5">>>>),
      SpaceJoin(<<<<"s", "d", "f">>, <<"6">>, <<"7">>>>),
      SpaceJoin(<<<<"s", "d", "a", "1">>, <<"8">>, <<"9">>>>),
      <<>> }

\* Lines fed to the whole pipeline.
PivotLines ==
    { T1, T2,
      SpaceJoin(<<DeviceWord, <<"r", "/", "s">>, <<"w">>>>),
      SpaceJoin(<<Sda, <<"1">>, <<"2">>>>),
      SpaceJoin(<<Sdb, <<"3">>, <<"4">>>>) }

InitIostat ==
    /\ time = <<>> /\ cols = <<>> /\ res = Empty /\ ipc = "parse" /\ nread = 0
    /\ lines = <<>> /\ todo = {} /\ files = Empty /\ plots = <<>>
    /\ ReportIdle /\ ResolveIdle

\* the parse loop, remembering the lines it was given
NextParse ==
    /\ \E line \in IoLines :
          /\ nread < MaxLines
          /\ ParseLine(line)
          /\ lines' = Append(lines, line)
    /\ UNCHANGED <<reportVars, resolveVars>>

SpecParse == InitIostat /\ [][NextParse]_vars

\* the whole of main
PivotLine ==
    /\ \E line \in PivotLines :
          nread < MaxPivotLines /\ ParseLine(line) /\ UNCHANGED lines
    /\ UNCHANGED <<reportVars, resolveVars>>
PivotEnd == EndOfInput /\ UNCHANGED <<reportVars, resolveVars>>
PivotWrite == (\E key \in todo : WriteKey(key)) /\ UNCHANGED <<reportVars, resolveVars>>

NextPivot == PivotLine \/ PivotEnd \/ PivotWrite

SpecPivot == InitIostat /\ [][NextPivot]_vars

(* ---------------------------------------------------------------------- *)
(* Claims about the periodic-block parser                                  *)
(* ---------------------------------------------------------------------- *)

SetMax(S) == CHOOSE x \in S : \A y \in S : y <= x

\* the timestamp of the most recent timestamp line before line j ('' if none)
TimeAt(j) ==
    LET S == {i \in 1..(j - 1) : IsTimeLine(lines[i])}
    IN  IF S = {} THEN <<>> ELSE TimeOf(lines[SetMax(S)])

\* the column names of the most recent header line before line j ([] if none)
ColsAt(j) ==
    LET S == {i \in 1..(j - 1) : IsColsLine(lines[i])}
    IN  IF S = {} THEN <<>> ELSE ColsOf(lines[SetMax(S)])

DataLineNumbers == {j \in 1..Len(lines) : IsDataLine(lines[j])}

\* the (metric, timestamp, device) triples that hold a value in table r
CellKeys(r) ==
    UNION { UNION { { <<m, t, d>> : d \in DOMAIN r[m][t] } : t \in DOMAIN r[m] } : m \in DOMAIN r }

\* the triples the data lines read so far are to be stored under
ExpectedKeys ==
    UNION { { <<ColsAt(j)[p], TimeAt(j), DiskOf(lines[j])>> : p \in 1..Len(ColsAt(j)) }
            : j \in DataLineNumbers }

\* the data lines that store under triple c
Writers(c) ==
    { j \in DataLineNumbers :
        /\ TimeAt(j) = c[2] /\ DiskOf(lines[j]) = c[3]
        /\ \E p \in 1..Len(ColsAt(j)) : ColsAt(j)[p] = c[1] }

\* the positions of name m in the header governing data line j
Positions(j, m) == {p \in 1..Len(ColsAt(j)) : ColsAt(j)[p] = m}

\* C4: the cells of a data line are keyed by the timestamp of the most recent
\* timestamp line and the column names of the most recent header line before it;
\* a new header replaces the whole column list and a new timestamp line the
\* current timestamp, so each name is bound to its position in the newest header.
C4_ParserState ==
    /\ time = TimeAt(Len(lines) + 1)
    /\ cols = ColsAt(Len(lines) + 1)
    /\ CellKeys(res) \subseteq ExpectedKeys
    /\ ipc = "parse" =>
          /\ CellKeys(res) = ExpectedKeys
          /\ \A c \in CellKeys(res) :
                LET j == SetMax(Writers(c))
                IN  Cardinality(Positions(j, c[1])) = 1 =>
                        \A p \in Positions(j, c[1]) :
                            res[c[1]][c[2]][c[3]] = DataOf(lines[j])[p]

C4_Witness ==
    /\ ipc = "parse" /\ Len(lines) = 4
    /\ IsTimeLine(lines[1])
    /\ IsColsLine(lines[2]) /\ ColsOf(lines[2]) = << <<"r">>, <<"w">> >>
    /\ IsColsLine(lines[3]) /\ ColsOf(lines[3]) = << <<"w">>, <<"r">> >>
    /\ IsDataLine(lines[4])
    /\ res[<<"w">>][TimeOf(lines[1])][Sda] = DataOf(lines[4])[1]
    /\ res[<<"r">>][TimeOf(lines[1])][Sda] = DataOf(lines[4])[2]

\* the last position, in input order and then position order, writing triple c
LastCellValue(c) ==
    LET j == SetMax(Writers(c))
        p == SetMax(Positions(j, c[1]))
    IN  IF p <= Len(DataOf(lines[j])) THEN <<TRUE, DataOf(lines[j])[p]>> ELSE <<FALSE, <<>>>>

\* C5: table[metric][timestamp][device] is the value of the last positional cell
\* (column name at position i, value at position i) emitted for that triple, also
\* when a header names a column twice or a device repeats under one timestamp.
C5_LastPositionalCellWins ==
    (ipc = "parse" /\ \A j \in DataLineNumbers : Len(DataOf(lines[j])) >= Len(ColsAt(j))) =>
        /\ CellKeys(res) = ExpectedKeys
        /\ \A c \in CellKeys(res) : LastCellValue(c) = <<TRUE, res[c[1]][c[2]][c[3]]>>

\* the device names the parser is restricted to
DeviceNames ==
    { <<"s", "d", x>> : x \in {"a", "b", "c", "d", "e"} }
    \cup { <<"s", "d", "g", Digits[i]>> : i \in 1..10 }

FirstTokenIsDevice(l) == Split(l) # <<>> /\ Head(Split(l)) \in DeviceNames

\* C10: a line that is no timestamp line, no header line and no data line of a
\* recognized device changes neither the timestamp, the column list nor the
\* table; a timestamp line changes only the timestamp and a header line only
\* the column list.
C10_Frame ==
    [][ lines' # lines =>
          LET l == lines'[Len(lines')]
          IN  /\ (~IsTimeLine(l) /\ ~IsColsLine(l) /\ ~FirstTokenIsDevice(l))
                    => UNCHANGED <<time, cols, res, ipc>>
              /\ IsTimeLine(l) => (time' = TimeOf(l) /\ UNCHANGED <<cols, res, ipc>>)
              /\ IsColsLine(l) => (cols' = ColsOf(l) /\ UNCHANGED <<time, res, ipc>>)
      ]_vars

C10_Witness ==
    /\ Len(lines) = 4 /\ ipc = "parse"
    /\ IsColsLine(lines[1]) /\ IsDataLine(lines[2])
    /\ Split(lines[3]) # <<>> /\ Head(Split(lines[3])) = <<"s", "d", "f">>
    /\ Split(lines[4]) # <<>> /\ Head(Split(lines[4])) = <<"s", "d", "a", "1">>
    /\ CellKeys(res) # {}

(* ---------------------------------------------------------------------- *)
(* Claims about the metric files                                           *)
(* ---------------------------------------------------------------------- *)

RECURSIVE TabSplitFrom(_, _, _, _)
TabSplitFrom(s, i, cur, acc) ==
    IF i > Len(s) THEN Append(acc, cur)
    ELSE IF s[i] = "\t"
         THEN TabSplitFrom(s, i + 1, <<>>, Append(acc, cur))
         ELSE TabSplitFrom(s, i + 1, Append(cur, s[i]), acc)

\* the fields of a line of a written file, split on tabs
TabSplit(s) == TabSplitFrom(s, 1, <<>>, <<>>)

\* the metrics whose file has been opened and written to
Written == {m \in DOMAIN res : m \notin todo /\ FileName(m) \in DOMAIN files}

FileOf(m) == files[FileName(m)]

\* the data rows of a file: the lines after the two comment lines, as fields
RowsOfFile(f) == [i \in 1..(Len(f) - 2) |-> TabSplit(f[i + 2])]

\* the device names of the column-header line of a file
HeaderDevices(f) == Tail(TabSplit(f[2]))

\* MM/DD/YY HH:MM:SS read as a date and a time, two-digit years as strptime reads them
Chrono(t) ==
    LET n(i) == 10 * DigitVal(t[i]) + DigitVal(t[i + 1])
    IN  << (IF n(7) >= 69 THEN 1900 ELSE 2000) + n(7), n(1), n(4), n(10), n(13), n(16) >>

RECURSIVE TupleLess(_, _)
TupleLess(a, b) ==
    IF a = <<>> THEN FALSE
    ELSE IF a[1] # b[1] THEN a[1] < b[1]
    ELSE TupleLess(Tail(a), Tail(b))

\* C6: in every metric file the row of an earlier timestamp is written before
\* the row of a later one, reading the timestamps as dates and times.
C6_RowsChronological ==
    \A m \in Written :
        LET rows == RowsOfFile(FileOf(m))
        IN  \A i, j \in 1..Len(rows) :
                ( /\ MatchesPattern(rows[i][1], TimePattern)
                  /\ MatchesPattern(rows[j][1], TimePattern)
                  /\ TupleLess(Chrono(rows[i][1]), Chrono(rows[j][1])) )
                => i < j

\* every timestamp of metric m carries the same device set
UniformDevices(m) == \A t, u \in DOMAIN res[m] : DOMAIN res[m][t] = DOMAIN res[m][u]

\* the (timestamp, device) -> value mapping read back from a written file
Reparse(f) ==
    LET rows == RowsOfFile(f)
        devs == HeaderDevices(f)
    IN  [t \in {rows[i][1] : i \in 1..Len(rows)} |->
            LET i == CHOOSE k \in 1..Len(rows) : rows[k][1] = t
            IN  [d \in {devs[j] : j \in 1..Len(devs)} |->
                    rows[i][1 + (CHOOSE j \in 1..Len(devs) : devs[j] = d)]]]

\* C7: for a metric whose timestamps all carry the same device set, re-parsing
\* the written file (rows split on tabs, fields paired with the header's device
\* names) recovers exactly the table's (timestamp, device) -> value mapping.
C7_RoundTrip ==
    \A m \in Written :
        UniformDevices(m) =>
            LET f == FileOf(m)
                rows == RowsOfFile(f)
            IN  /\ Len(f) >= 2
                /\ \A i \in 1..Len(rows) : Len(rows[i]) = 1 + Len(HeaderDevices(f))
                /\ \A i, j \in 1..Len(rows) : rows[i][1] = rows[j][1] => i = j
                /\ \A i, j \in 1..Len(HeaderDevices(f)) :
                      HeaderDevices(f)[i] = HeaderDevices(f)[j] => i = j
                /\ Reparse(f) = res[m]

C7_Witness ==
    /\ ipc = "done"
    /\ \E m \in Written :
          /\ UniformDevices(m)
          /\ DOMAIN res[m] = {T1, T2}
          /\ DOMAIN res[m][T1] = {Sda, Sdb}
          /\ res[m][T1][Sda] # res[m][T1][Sdb]

\* how many of the sorted timestamps ts, from the front, carry every device of devs
RECURSIVE GoodPrefix(_, _, _)
GoodPrefix(m, ts, devs) ==
    IF ts = <<>> THEN 0
    ELSE IF \A j \in 1..Len(devs) : devs[j] \in DOMAIN res[m][Head(ts)]
         THEN 1 + GoodPrefix(m, Tail(ts), devs)
         ELSE 0

\* C9: the device columns are the sorted device set of the first timestamp in
\* sorted order; every row written has one field per header device, the j-th
\* being the table's value for the j-th header device at that timestamp; a
\* timestamp lacking a header device stops serialisation with an error at that
\* row, the rows before it staying in the file.
C9_ColumnAlignment ==
    \A m \in Written :
        LET f == FileOf(m)
            ts == SortedStrs(DOMAIN res[m])
            devs == SortedStrs(DOMAIN res[m][ts[1]])
            n == GoodPrefix(m, ts, devs)
            rows == RowsOfFile(f)
        IN  /\ HeaderDevices(f) = devs
            /\ Len(rows) = n
            /\ \A i \in 1..n :
                  rows[i] = <<ts[i]>> \o [j \in 1..Len(devs) |-> res[m][ts[i]][devs[j]]]
            /\ n < Len(ts) =>
                  (ipc = "error" /\ \A k \in 1..Len(plots) : plots[k].key # m)
            /\ n = Len(ts) => \E k \in 1..Len(plots) : plots[k].key = m

C9_Witness ==
    /\ ipc = "error"
    /\ \E m \in Written :
          /\ Len(FileOf(m)) = 3
          /\ DOMAIN res[m] = {T1, T2}
          /\ DOMAIN res[m][T2] = {Sda, Sdb}
          /\ DOMAIN res[m][T1] = {Sda}

====
